---- MODULE Spec2Model ----
(***************************************************************************)
(* Model of the crowdfunding program of src/program/src/lib.rs: the        *)
(* dispatcher process_instruction and its three handlers create_campaign,  *)
(* withdraw and donate, acting on host accounts (owner, lamports, data).   *)
(*                                                                         *)
(* Widths are scaled so that the arithmetic stays inside TLC's integers:   *)
(* a byte has ByteBits bits, a u64 takes U64Bytes bytes, a Pubkey          *)
(* PubkeyBytes bytes and borsh's u32 length prefix LenBytes bytes.  All    *)
(* arithmetic on u64 is done modulo U64Mod, as the code's is modulo 2^64.  *)
(*                                                                         *)
(* One step of the model is one instruction.  The host keeps the account   *)
(* buffers of a failed instruction out of the committed state, and the     *)
(* model keeps, next to the committed accounts, the instruction last       *)
(* processed, the value the program returned for it, the accounts before   *)
(* it and the account buffers as the program left them.                    *)
(***************************************************************************)
EXTENDS Integers, Sequences, FiniteSets, TLC

\* ------------------------------------------------------------------ bounds
ByteBits == 6
U64Bytes == 1
PubkeyBytes == 1
LenBytes == 1
StorageOverhead == 1
LamportsPerByteYear == 1
MaxSteps == 3

ByteBase == 2 ^ ByteBits
U64Mod == ByteBase ^ U64Bytes
U64Max == U64Mod - 1

\* ------------------------------------------------------------- the accounts
\* Two wallets (owned by the system program, no data) and two accounts
\* allocated for this program.  Any of them may sign a transaction.
Wallets == {1, 2}
Allocated == {3, 4}
Keys == Wallets \cup Allocated

program_id == 9

\* ------------------------------------------------------------ borsh encoding
RECURSIVE EncodeLE(_, _)
EncodeLE(v, n) ==
    IF n = 0 THEN <<>> ELSE <<v % ByteBase>> \o EncodeLE(v \div ByteBase, n - 1)

RECURSIVE DecodeLE(_)
DecodeLE(bytes) ==
    IF bytes = <<>> THEN 0 ELSE Head(bytes) + ByteBase * DecodeLE(Tail(bytes))

Drop(bytes, n) == SubSeq(bytes, n + 1, Len(bytes))
Take(bytes, n) == SubSeq(bytes, 1, n)

\* What a read gives: whether it succeeded, the value and the bytes left
ReadErr(none) == [ok |-> FALSE, val |-> none, rest |-> <<>>]

\* u64 / Pubkey / u32: a fixed number of bytes, little-endian
ReadFixed(buf, n) ==
    IF Len(buf) < n THEN ReadErr(0)
    ELSE [ok |-> TRUE, val |-> DecodeLE(Take(buf, n)), rest |-> Drop(buf, n)]

\* The strings of the model are ASCII bytes (top bit clear) and bytes with the
\* top bit set on their own, which are not UTF-8.
IsUtf8(bytes) == \A i \in 1..Len(bytes) : bytes[i] < ByteBase \div 2

\* String, after its u32 length prefix l: that many bytes, which must be UTF-8
ReadStringBody(l) ==
    IF ~l.ok THEN ReadErr(<<>>)
    ELSE IF Len(l.rest) < l.val THEN ReadErr(<<>>)
    ELSE IF ~IsUtf8(Take(l.rest, l.val)) THEN ReadErr(<<>>)
    ELSE [ok |-> TRUE, val |-> Take(l.rest, l.val), rest |-> Drop(l.rest, l.val)]

ReadString(buf) == ReadStringBody(ReadFixed(buf, LenBytes))

WriteString(s) == EncodeLE(Len(s), LenBytes) \o s

\* #[derive(BorshSerialize)] struct CampaignDetails: the fields in order
SerializeCampaign(c) ==
    EncodeLE(c.admin, PubkeyBytes) \o WriteString(c.name)
        \o WriteString(c.description) \o WriteString(c.image_link)
        \o EncodeLE(c.amount_donated, U64Bytes)

NoCampaign ==
    [admin |-> 0, name |-> <<>>, description |-> <<>>, image_link |-> <<>>,
     amount_donated |-> 0]

\* One field of a struct being read: st is the struct so far and the bytes
\* left, r the read of field f from those bytes
PutField(st, f, r) ==
    IF ~r.ok THEN ReadErr(NoCampaign)
    ELSE [ok |-> TRUE, val |-> [st.val EXCEPT ![f] = r.val], rest |-> r.rest]

FixedField(st, f, n) ==
    IF ~st.ok THEN ReadErr(NoCampaign) ELSE PutField(st, f, ReadFixed(st.rest, n))

StringField(st, f) ==
    IF ~st.ok THEN ReadErr(NoCampaign) ELSE PutField(st, f, ReadString(st.rest))

\* #[derive(BorshDeserialize)] struct CampaignDetails: reads the fields in
\* order from the front of the buffer, and leaves the rest
DeserializeCampaign(buf) ==
    FixedField(
        StringField(
            StringField(
                StringField(
                    FixedField([ok |-> TRUE, val |-> NoCampaign, rest |-> buf],
                               "admin", PubkeyBytes),
                    "name"),
                "description"),
            "image_link"),
        "amount_donated", U64Bytes)

\* BorshDeserialize::try_from_slice: the whole slice must be consumed
WholeSlice(r, none) == IF r.ok /\ r.rest = <<>> THEN r ELSE ReadErr(none)

CampaignTryFromSlice(buf) == WholeSlice(DeserializeCampaign(buf), NoCampaign)

\* #[derive(BorshDeserialize)] struct WithdrawRequest { amount: u64 }
WithdrawTryFromSlice(buf) == WholeSlice(ReadFixed(buf, U64Bytes), 0)

\* serialize(&mut &mut data[..]): io::Write for &mut [u8] copies what fits
\* to the front of the region and fails (WriteZero) when not all did
WriteAll(region, bytes) ==
    IF Len(bytes) <= Len(region)
    THEN [ok |-> TRUE, data |-> bytes \o Drop(region, Len(bytes))]
    ELSE [ok |-> FALSE, data |-> Take(bytes, Len(region))]

\* Rent::minimum_balance(data_len)
minimum_balance(data_len) == (StorageOverhead + data_len) * LamportsPerByteYear

\* ------------------------------------------------------------- the handlers
\* A handler takes the account buffers, the keys of the accounts passed (in
\* order), the keys among them that signed, its payload and whether the build
\* checks arithmetic overflow; it gives the value it returns and the account
\* buffers as it leaves them.  "Panic" is the abort of a failed expect() or
\* of an overflow in a build that checks it; without the check u64 wraps.
Return(res, accs) == [result |-> res, accounts |-> accs]

\* lamports < rent_exemption (create_campaign)
BelowRentNever(lamports, rent_exemption) == FALSE

BelowRent(lamports, rent_exemption) == lamports < rent_exemption

\* input_data.amount_donated = 0 (create_campaign)
ResetDonatedKept(c) == c

ResetDonated(c) == [c EXCEPT !.amount_donated = 0]

\* campaign_data.admin != *admin_account.key (withdraw)
AdminMismatchNever(campaign, key) == FALSE

AdminMismatch(campaign, key) == campaign.admin # key

\* input_data.admin != *creator_account.key (create_campaign)
AdminNotCreatorNever(campaign, key) == FALSE

AdminNotCreator(campaign, key) == campaign.admin # key

\* account.owner != program_id (all three handlers)
NotOwnedNever(accs, account) == FALSE

NotOwned(accs, account) == accs[account].owner # program_id

\* serialize(...)? into the data of writing_account, w being the write
Serialized(accs, writing_account, w) ==
    Return(IF w.ok THEN "Ok" ELSE "BorshIoError",
           [accs EXCEPT ![writing_account].data = w.data])

\* create_campaign from its signer check on; input_data is the payload decoded
create_campaign_checked(accs, writing_account, creator_account, signers, input_data) ==
    IF creator_account \notin signers THEN Return("IncorrectProgramId", accs)
    ELSE IF NotOwned(accs, writing_account)
    THEN Return("IncorrectProgramId", accs)
    ELSE IF ~input_data.ok THEN Return("Panic", accs)
    ELSE IF AdminNotCreator(input_data.val, creator_account)
    THEN Return("InvalidInstructionData", accs)
    ELSE IF BelowRent(accs[writing_account].lamports,
                      minimum_balance(Len(accs[writing_account].data)))
    THEN Return("InsufficientFunds", accs)
    ELSE Serialized(accs, writing_account,
                    WriteAll(accs[writing_account].data,
                             SerializeCampaign(ResetDonated(input_data.val))))

create_campaign(accs, accts, signers, data, checks) ==
    IF Len(accts) < 2 THEN Return("NotEnoughAccountKeys", accs)
    ELSE create_campaign_checked(accs, accts[1], accts[2], signers,
                                 CampaignTryFromSlice(data))

\* The credit of the admin account left out
withdraw_credit_lost(debited, admin_account, amount, checks) ==
    Return("Ok", debited)

\* admin_account.lamports += amount, after the debit
withdraw_credit(debited, admin_account, amount, checks) ==
    IF debited[admin_account].lamports + amount > U64Max /\ checks
    THEN Return("Panic", debited)
    ELSE Return("Ok", [debited EXCEPT ![admin_account].lamports =
                          (debited[admin_account].lamports + amount) % U64Mod])

\* The funds check and writing_account.lamports -= amount, in u64
withdraw_transfer(accs, writing_account, admin_account, amount, balance, rent_exemption, checks) ==
    IF balance < rent_exemption /\ checks THEN Return("Panic", accs)
    ELSE IF (balance - rent_exemption) % U64Mod < amount
    THEN Return("InsufficientFunds", accs)
    ELSE IF balance < amount /\ checks THEN Return("Panic", accs)
    ELSE withdraw_credit(
            [accs EXCEPT ![writing_account].lamports = (balance - amount) % U64Mod],
            admin_account, amount, checks)

\* withdraw from its ownership check on; campaign_data is the account's data
\* decoded and input_data the payload decoded
withdraw_checked(accs, writing_account, admin_account, signers, campaign_data, input_data, checks) ==
    IF NotOwned(accs, writing_account)
    THEN Return("IncorrectProgramId", accs)
    ELSE IF admin_account \notin signers THEN Return("IncorrectProgramId", accs)
    ELSE IF ~campaign_data.ok THEN Return("Panic", accs)
    ELSE IF AdminMismatch(campaign_data.val, admin_account)
    THEN Return("InvalidAccountData", accs)
    ELSE IF ~input_data.ok THEN Return("Panic", accs)
    ELSE withdraw_transfer(accs, writing_account, admin_account, input_data.val,
                           accs[writing_account].lamports,
                           minimum_balance(Len(accs[writing_account].data)),
                           checks)

withdraw(accs, accts, signers, data, checks) ==
    IF Len(accts) < 2 THEN Return("NotEnoughAccountKeys", accs)
    ELSE withdraw_checked(accs, accts[1], accts[2], signers,
                          CampaignTryFromSlice(accs[accts[1]].data),
                          WithdrawTryFromSlice(data), checks)

\* The three assignments of donate and its write; donated is the staging
\* account's balance.  The right operand's borrow() of the lamports cell is
\* still held when try_borrow_mut_lamports() asks for the cell: for one and
\* the same account that fails.
donate_transfer(accs, writing_account, donator_program_account, campaign_data, donated, checks) ==
    IF campaign_data.amount_donated + donated > U64Max /\ checks
    THEN Return("Panic", accs)
    ELSE IF writing_account = donator_program_account
    THEN Return("AccountBorrowFailed", accs)
    ELSE IF accs[writing_account].lamports + donated > U64Max /\ checks
    THEN Return("Panic", accs)
    ELSE Serialized(
            [accs EXCEPT
                ![writing_account].lamports =
                    (accs[writing_account].lamports + donated) % U64Mod,
                ![donator_program_account].lamports = 0],
            writing_account,
            WriteAll(accs[writing_account].data,
                     SerializeCampaign(
                        [campaign_data EXCEPT !.amount_donated =
                            (campaign_data.amount_donated + donated) % U64Mod])))

\* donate from its ownership checks on; campaign_data is the account's data
\* decoded
donate_checked(accs, writing_account, donator_program_account, donator, signers, campaign_data, checks) ==
    IF NotOwned(accs, writing_account)
    THEN Return("IncorrectProgramId", accs)
    ELSE IF NotOwned(accs, donator_program_account)
    THEN Return("IncorrectProgramId", accs)
    ELSE IF donator \notin signers THEN Return("IncorrectProgramId", accs)
    ELSE IF ~campaign_data.ok THEN Return("Panic", accs)
    ELSE donate_transfer(accs, writing_account, donator_program_account,
                         campaign_data.val,
                         accs[donator_program_account].lamports, checks)

donate(accs, accts, signers, data, checks) ==
    IF Len(accts) < 3 THEN Return("NotEnoughAccountKeys", accs)
    ELSE donate_checked(accs, accts[1], accts[2], accts[3], signers,
                        CampaignTryFromSlice(accs[accts[1]].data), checks)

\* ----------------------------------------------------------- the dispatcher
\* The dispatcher handing the handlers the opcode byte too
process_instruction_whole(accs, accts, signers, instruction_data, checks) ==
    IF Len(instruction_data) = 0 THEN Return("InvalidInstructionData", accs)
    ELSE IF instruction_data[1] = 0
    THEN create_campaign(accs, accts, signers, instruction_data, checks)
    ELSE IF instruction_data[1] = 1
    THEN withdraw(accs, accts, signers, instruction_data, checks)
    ELSE IF instruction_data[1] = 2
    THEN donate(accs, accts, signers, instruction_data, checks)
    ELSE Return("InvalidInstructionData", accs)

process_instruction(accs, accts, signers, instruction_data, checks) ==
    IF Len(instruction_data) = 0 THEN Return("InvalidInstructionData", accs)
    ELSE IF instruction_data[1] = 0
    THEN create_campaign(accs, accts, signers, Tail(instruction_data), checks)
    ELSE IF instruction_data[1] = 1
    THEN withdraw(accs, accts, signers, Tail(instruction_data), checks)
    ELSE IF instruction_data[1] = 2
    THEN donate(accs, accts, signers, Tail(instruction_data), checks)
    ELSE Return("InvalidInstructionData", accs)

\* ------------------------------------------------------------------- state
VARIABLES
    accounts,         \* committed accounts: key -> [owner, lamports, data]
    overflow_checks,  \* whether the build panics on arithmetic overflow
    pre,              \* the committed accounts before the last instruction
    ix,               \* the last instruction: [data, accounts, signers]
    result,           \* what the program returned for it
    out,              \* the account buffers as the program left them
    created,          \* the accounts on which a create has been committed
    scenario,         \* how far the last instructions follow the scenario
    steps             \* instructions committed that changed an account

vars == <<accounts, overflow_checks, pre, ix, result, out, created, scenario, steps>>

RECURSIVE Zeros(_)
Zeros(n) == IF n = 0 THEN <<>> ELSE <<0>> \o Zeros(n - 1)

\* Texts of the model
NameX == <<1>>
DescY == <<2>>
ImageZ == <<3>>
Names == {<<>>, NameX}

Campaign(admin, name, donated) ==
    [admin |-> admin, name |-> name, description |-> DescY,
     image_link |-> ImageZ, amount_donated |-> donated]

\* The data length of the two allocated accounts: account 3 holds a record
\* with the longer name exactly, account 4 one with the shorter name.
DataLen(k) ==
    IF k = 3 THEN Len(SerializeCampaign(Campaign(0, NameX, 0)))
    ELSE IF k = 4 THEN Len(SerializeCampaign(Campaign(0, <<>>, 0)))
    ELSE 0

SumLamports(accs) ==
    accs[1].lamports + accs[2].lamports + accs[3].lamports + accs[4].lamports

\* The scenario: a create by admin A with the texts x, y, z on an account
\* that holds just the rent-exemption minimum and whose data region has the
\* length of the encoded record; then a donate from a funded staging account;
\* then a withdraw by A within the funds; then a withdraw by A beyond them.
\* stage counts the instructions, each right after the other, whose inputs
\* were the scenario's; account and admin are its campaign account and A.
NoScenario == [stage |-> 0, account |-> 0, admin |-> 0]

ScenarioCreate(accs, accts, signers, instruction_data, given) ==
    /\ Len(instruction_data) > 0 /\ instruction_data[1] = 0
    /\ Len(accts) = 2 /\ accts[1] # accts[2]
    /\ accts[2] \in signers
    /\ accs[accts[1]].owner = program_id
    /\ given.ok
    /\ given.val.admin = accts[2]
    /\ given.val.name = NameX
    /\ given.val.description = DescY
    /\ given.val.image_link = ImageZ
    /\ accs[accts[1]].lamports = minimum_balance(Len(accs[accts[1]].data))
    /\ Len(accs[accts[1]].data) = Len(instruction_data) - 1

ScenarioDonate(sc, accs, accts, signers, instruction_data) ==
    /\ sc.stage = 1
    /\ instruction_data = <<2>>
    /\ Len(accts) = 3 /\ accts[1] = sc.account /\ accts[2] # sc.account
    /\ accs[accts[2]].owner = program_id
    /\ accs[accts[2]].lamports > 0
    /\ accts[3] \in signers

ScenarioWithdraw(sc, accs, accts, signers, instruction_data, request) ==
    /\ sc.stage \in {2, 3}
    /\ Len(instruction_data) > 0 /\ instruction_data[1] = 1
    /\ accts = <<sc.account, sc.admin>>
    /\ sc.admin \in signers
    /\ request.ok
    /\ IF sc.stage = 2
       THEN /\ request.val > 0
            /\ request.val <= accs[sc.account].lamports
                                - minimum_balance(Len(accs[sc.account].data))
       ELSE request.val > accs[sc.account].lamports
                                - minimum_balance(Len(accs[sc.account].data))

ScenarioStep(sc, accs, accts, signers, instruction_data) ==
    IF ScenarioDonate(sc, accs, accts, signers, instruction_data)
       \/ ScenarioWithdraw(sc, accs, accts, signers, instruction_data,
                           WithdrawTryFromSlice(Drop(instruction_data, 1)))
    THEN [sc EXCEPT !.stage = sc.stage + 1]
    ELSE IF ScenarioCreate(accs, accts, signers, instruction_data,
                           CampaignTryFromSlice(Drop(instruction_data, 1)))
    THEN [stage |-> 1, account |-> accts[1], admin |-> accts[2]]
    ELSE NoScenario

\* The host allocates data zero-filled; the lamports in existence fit a u64.
Init ==
    /\ \E b3 \in {minimum_balance(DataLen(3)) - 1, minimum_balance(DataLen(3))},
          b4 \in {minimum_balance(DataLen(4)) + 3} :
         accounts = [k \in Keys |->
            [owner |-> IF k \in Allocated THEN program_id ELSE 0,
             lamports |-> CASE k = 1 -> 2 [] k = 2 -> 1 [] k = 3 -> b3 [] k = 4 -> b4,
             data |-> Zeros(DataLen(k))]]
    /\ SumLamports(accounts) <= U64Max
    /\ overflow_checks \in BOOLEAN
    /\ pre = accounts
    /\ out = accounts
    /\ ix = [data |-> <<>>, accounts |-> <<>>, signers |-> {}]
    /\ result = "None"
    /\ created = {}
    /\ scenario = NoScenario
    /\ steps = 0

\* The host commits the buffers of an instruction that returned Ok, provided
\* the lamports of the accounts still add up to what they did before, and
\* discards them otherwise.
Commit(before, r) ==
    IF r.result = "Ok" /\ SumLamports(r.accounts) = SumLamports(before)
    THEN r.accounts ELSE before

Idle == [data |-> <<>>, accounts |-> <<>>, signers |-> {}]

\* The host takes r, what the program returned for an instruction and the
\* buffers it left, and commits or discards.
Conclude(accts, signers, instruction_data, r) ==
    /\ accounts' = Commit(accounts, r)
    /\ pre' = accounts
    /\ out' = r.accounts
    /\ result' = r.result
    /\ ix' = [data |-> instruction_data, accounts |-> accts, signers |-> signers]
    /\ created' = IF r.result = "Ok" /\ instruction_data[1] = 0
                  THEN created \cup {accts[1]} ELSE created
    /\ scenario' = ScenarioStep(scenario, accounts, accts, signers,
                                instruction_data)
    /\ steps' = IF accounts' = accounts THEN steps ELSE steps + 1
    /\ steps' <= MaxSteps
    /\ UNCHANGED overflow_checks

\* One invocation of the entry point by the host, on the committed accounts
Invoke(accts, signers, instruction_data) ==
    /\ result = "None"
    /\ Conclude(accts, signers, instruction_data,
                process_instruction(accounts, accts, signers, instruction_data,
                                    overflow_checks))

\* The host hands the result to the client and drops the account handles of
\* the invocation; the next instruction starts from the committed accounts.
Release ==
    /\ result # "None"
    /\ result' = "None"
    /\ ix' = Idle
    /\ pre' = accounts
    /\ out' = accounts
    /\ UNCHANGED <<accounts, overflow_checks, created, scenario, steps>>

Range(s) == {s[i] : i \in 1..Len(s)}

\* The accounts passed to create and withdraw, and a list one account short
AccountPairs == {<<w, a>> : w \in {1, 3, 4}, a \in {1, 2, 3}} \cup {<<3>>}

\* The accounts passed to donate (the donor is a wallet), and a short list
AccountTriples ==
    {<<w, s, d>> : w \in {1, 3, 4}, s \in {1, 3, 4}, d \in Wallets}
        \cup {<<3, 4>>}

\* Each handler reads the signer flag of one account, the last it takes:
\* that account signed or no account passed did.
SignerSets(accts) == {{}, {accts[Len(accts)]}}

\* Well-formed payloads (their amount_donated is not 0), an empty one and
\* one with a byte too many
CreatePayloads ==
    {SerializeCampaign(Campaign(a, n, 5)) : a \in {1, 2, 3}, n \in Names}
        \cup {<<>>, SerializeCampaign(Campaign(1, NameX, 5)) \o <<0>>}

WithdrawAmounts == {0, 1, 3, U64Max}

WithdrawPayloads == {EncodeLE(a, U64Bytes) : a \in WithdrawAmounts} \cup {<<>>}

CreateCampaign ==
    \E accts \in AccountPairs, payload \in CreatePayloads :
        \E signers \in SignerSets(accts) :
            Invoke(accts, signers, <<0>> \o payload)

Withdraw ==
    \E accts \in AccountPairs, payload \in WithdrawPayloads :
        \E signers \in SignerSets(accts) :
            Invoke(accts, signers, <<1>> \o payload)

Donate ==
    \E accts \in AccountTriples :
        \E signers \in SignerSets(accts) :
            Invoke(accts, signers, <<2>>)

Unknown ==
    \E instruction_data \in {<<>>, <<3>>, <<3, 1>>} :
        Invoke(<<3, 1>>, {1}, instruction_data)

Next == CreateCampaign \/ Withdraw \/ Donate \/ Unknown \/ Release

Spec == Init /\ [][Next]_vars

\* ------------------------------------------------------------ observations
IsOp(opcode) == result # "None" /\ Len(ix.data) > 0 /\ ix.data[1] = opcode
IsCreate == IsOp(0) /\ Len(ix.accounts) >= 2
IsWithdraw == IsOp(1) /\ Len(ix.accounts) >= 2
IsDonate == IsOp(2) /\ Len(ix.accounts) >= 3
Payload == Tail(ix.data)

\* The record at the front of an account's data region
Stored(accs, k) == DeserializeCampaign(accs[k].data).val

RentOf(accs, k) == minimum_balance(Len(accs[k].data))

BalancesUnchanged == \A k \in Keys : accounts[k].lamports = pre[k].lamports

\* ------------------------------------------------------------------ claims

\* C1: once a create has succeeded on an account, the admin stored in it is
\* the same in every later state, whatever instructions follow.
C1_AdminNeverChanges ==
    [][\A k \in created : Stored(accounts', k).admin = Stored(accounts, k).admin]_vars

\* C2: an account that holds a CampaignRecord always has at least the
\* rent-exemption minimum for its data length.
C2_CampaignRentExempt ==
    \A k \in created : accounts[k].lamports >= RentOf(accounts, k)

\* C3: a withdraw that gets as far as the funds check and asks for more than
\* (balance - rent-exemption minimum) fails with InsufficientFunds and changes
\* no balance, also when the balance is at or below the minimum.
C3_WithdrawNoUnderflow ==
    IsWithdraw =>
        LET w == ix.accounts[1]
            a == ix.accounts[2]
            campaign == CampaignTryFromSlice(pre[w].data)
            request == WithdrawTryFromSlice(Payload)
        IN
        (/\ pre[w].owner = program_id
         /\ a \in ix.signers
         /\ campaign.ok /\ campaign.val.admin = a
         /\ request.ok
         /\ request.val > pre[w].lamports - RentOf(pre, w))
        => (result = "InsufficientFunds" /\ BalancesUnchanged)

\* C4: after creation amount_donated never decreases; it changes only in a
\* donate to that account, by exactly the staging account's balance.
C4_DonatedMonotone ==
    [][\A k \in created :
          LET old == Stored(accounts, k).amount_donated
              new == Stored(accounts', k).amount_donated
          IN
          /\ new >= old
          /\ new # old =>
                /\ Len(ix'.data) > 0 /\ ix'.data[1] = 2 /\ Len(ix'.accounts) >= 3
                /\ ix'.accounts[1] = k
                /\ new = old + accounts[ix'.accounts[2]].lamports]_vars

\* C5 as stated: a withdraw succeeds only for a signing admin whose key is the
\* stored admin, and when the key differs from the stored admin it fails with
\* InvalidAccountData and no balance changes.
C5_AdminMismatchAlwaysInvalidAccountData ==
    IsWithdraw =>
        LET w == ix.accounts[1]
            a == ix.accounts[2]
            campaign == CampaignTryFromSlice(pre[w].data)
        IN
        /\ result = "Ok" => (a \in ix.signers /\ campaign.ok /\ campaign.val.admin = a)
        /\ (campaign.ok /\ campaign.val.admin # a)
              => (result = "InvalidAccountData" /\ BalancesUnchanged)

\* C5 amended: a withdraw succeeds only for a signing admin whose key is the
\* stored admin; when the writing account is program-owned, the admin account
\* signed and the stored admin differs from its key, withdraw fails with
\* InvalidAccountData; and whenever the admin account's key is not the stored
\* admin, withdraw fails and no balance changes.
C5_AdminMismatch ==
    IsWithdraw =>
        LET w == ix.accounts[1]
            a == ix.accounts[2]
            campaign == CampaignTryFromSlice(pre[w].data)
        IN
        /\ result = "Ok" => (a \in ix.signers /\ campaign.ok /\ campaign.val.admin = a)
        /\ (/\ pre[w].owner = program_id /\ a \in ix.signers
            /\ campaign.ok /\ campaign.val.admin # a)
              => result = "InvalidAccountData"
        /\ ~(campaign.ok /\ campaign.val.admin = a)
              => (result # "Ok" /\ BalancesUnchanged /\ out = pre)

C5_Witness ==
    /\ IsWithdraw
    /\ result = "InvalidAccountData"
    /\ ix.accounts[1] \in created
    /\ ix.accounts[2] \in ix.signers
    /\ Stored(pre, ix.accounts[1]).admin # ix.accounts[2]
    /\ WithdrawTryFromSlice(Payload).ok
    /\ WithdrawTryFromSlice(Payload).val <= pre[ix.accounts[1]].lamports
                                              - RentOf(pre, ix.accounts[1])

\* C6: a withdraw of at most (balance - rent-exemption minimum), signed by the
\* account whose key is the stored admin (an account other than the campaign
\* account), lowers the campaign balance by exactly the amount, raises the
\* admin's balance by exactly the amount and leaves the record bytes as they
\* were.
C6_WithdrawMoves ==
    IsWithdraw =>
        LET w == ix.accounts[1]
            a == ix.accounts[2]
            request == WithdrawTryFromSlice(Payload)
        IN
        (/\ w \in created
         /\ w # a
         /\ a \in ix.signers
         /\ Stored(pre, w).admin = a
         /\ request.ok
         /\ request.val <= pre[w].lamports - RentOf(pre, w))
        => (/\ accounts[w].lamports = pre[w].lamports - request.val
            /\ accounts[a].lamports = pre[a].lamports + request.val
            /\ accounts[w].data = pre[w].data)

\* C7: a donate to a campaign account from another staging account that
\* passes the ownership and signer checks raises amount_donated by exactly
\* the staging account's balance, leaves the staging account with 0 and
\* raises the campaign balance by the donated amount.
C7_DonateSweeps ==
    IsDonate =>
        LET w == ix.accounts[1]
            s == ix.accounts[2]
            d == ix.accounts[3]
        IN
        (/\ w \in created
         /\ w # s
         /\ pre[w].owner = program_id /\ pre[s].owner = program_id
         /\ d \in ix.signers)
        => (/\ Stored(accounts, w).amount_donated
                  = Stored(pre, w).amount_donated + pre[s].lamports
            /\ accounts[s].lamports = 0
            /\ accounts[w].lamports = pre[w].lamports + pre[s].lamports)

\* The conditions of C8 on a create instruction
CreateAdmitted ==
    /\ IsCreate
    /\ pre[ix.accounts[1]].owner = program_id
    /\ ix.accounts[2] \in ix.signers
    /\ CampaignTryFromSlice(Payload).ok
    /\ CampaignTryFromSlice(Payload).val.admin = ix.accounts[2]
    /\ pre[ix.accounts[1]].lamports >= RentOf(pre, ix.accounts[1])

CreateStores ==
    LET w == ix.accounts[1]
        given == CampaignTryFromSlice(Payload).val
    IN
    /\ result = "Ok"
    /\ Stored(accounts, w) = [given EXCEPT !.amount_donated = 0]
    /\ BalancesUnchanged

\* C8 as stated: every create on a program-owned account with at least the
\* rent-exemption minimum, signed by the creator named as admin, stores the
\* payload's record with amount_donated 0 and changes no balance.
C8_CreateAlwaysStores == CreateAdmitted => CreateStores

\* C8 amended: the same, provided the encoded record is no longer than the
\* writing account's data region.
C8_CreateStores ==
    (/\ CreateAdmitted
     /\ Len(SerializeCampaign(CampaignTryFromSlice(Payload).val))
            <= Len(pre[ix.accounts[1]].data))
    => CreateStores

C8_Witness ==
    /\ CreateAdmitted
    /\ CreateStores
    /\ CampaignTryFromSlice(Payload).val.amount_donated # 0
    /\ accounts[ix.accounts[1]].data # pre[ix.accounts[1]].data

\* C9: a create fails, leaving the writing account's data and all balances
\* as they were, when the payload is empty or malformed, the creator did not
\* sign, the writing account is not program-owned, the payload's admin is not
\* the creator's key, or the balance is below the rent-exemption minimum.
C9_CreateRejects ==
    IsCreate =>
        LET w == ix.accounts[1]
            c == ix.accounts[2]
            given == CampaignTryFromSlice(Payload)
        IN
        (\/ ~given.ok
         \/ c \notin ix.signers
         \/ pre[w].owner # program_id
         \/ given.val.admin # c
         \/ pre[w].lamports < RentOf(pre, w))
        => (result # "Ok" /\ accounts = pre /\ out = pre)

C9_Witness ==
    /\ IsCreate
    /\ result = "InsufficientFunds"
    /\ pre[ix.accounts[1]].lamports < RentOf(pre, ix.accounts[1])
    /\ accounts = pre

\* C10: when the account that has to sign (creator, admin, donor) did not, and
\* the ownership checks before the signer check pass, the instruction fails
\* with MissingRequiredSignature, a kind other than the one for an account
\* that is not program-owned.
C10_MissingSignatureKind ==
    /\ (IsCreate /\ ix.accounts[2] \notin ix.signers)
          => result = "MissingRequiredSignature"
    /\ (IsWithdraw /\ pre[ix.accounts[1]].owner = program_id
            /\ ix.accounts[2] \notin ix.signers)
          => result = "MissingRequiredSignature"
    /\ (IsDonate /\ pre[ix.accounts[1]].owner = program_id
            /\ pre[ix.accounts[2]].owner = program_id
            /\ ix.accounts[3] \notin ix.signers)
          => result = "MissingRequiredSignature"

\* The handler the opcode selects, on the payload it is to get
Handler(opcode, accs, accts, signers, payload, checks) ==
    CASE opcode = 0 -> create_campaign(accs, accts, signers, payload, checks)
      [] opcode = 1 -> withdraw(accs, accts, signers, payload, checks)
      [] opcode = 2 -> donate(accs, accts, signers, payload, checks)

\* C11: empty instruction bytes and a first byte other than 0, 1, 2 fail with
\* InvalidInstructionData and leave every account as it was; a first byte 0,
\* 1, 2 gives what create, withdraw, donate give on the bytes from offset 1.
C11_Dispatch ==
    result # "None" =>
        IF Len(ix.data) = 0 \/ ix.data[1] \notin {0, 1, 2}
        THEN result = "InvalidInstructionData" /\ out = pre /\ accounts = pre
        ELSE Return(result, out) =
                Handler(ix.data[1], pre, ix.accounts, ix.signers, Tail(ix.data),
                        overflow_checks)

C11_Witness ==
    /\ IsWithdraw
    /\ result = "Ok"
    /\ Tail(ix.data) = EncodeLE(3, U64Bytes)
    /\ accounts[ix.accounts[1]].lamports = pre[ix.accounts[1]].lamports - 3

C13_CreatedOnce ==
    [][/\ (/\ result = "None" /\ result' # "None"
           /\ Len(ix'.data) > 0 /\ ix'.data[1] = 0
           /\ Len(ix'.accounts) >= 2 /\ ix'.accounts[1] \in created)
          => result' # "Ok"
       /\ \A k \in created :
            /\ Stored(accounts', k).name = Stored(accounts, k).name
            /\ Stored(accounts', k).description = Stored(accounts, k).description
            /\ Stored(accounts', k).image_link = Stored(accounts, k).image_link]_vars

\* C14: after a successful create the whole data region of the account
\* decodes, the way withdraw and donate decode it, to a CampaignRecord, also
\* when the region is longer than the encoded record.
C14_RegionDecodes ==
    \A k \in created : CampaignTryFromSlice(accounts[k].data).ok

\* C15: after a successful create the stored admin is the key of an account
\* that signed the instruction (the creator), and a create signed by the
\* creator on a program-owned account, with a payload whose admin is another
\* key, fails with InvalidInstructionData and changes nothing.
C15_AdminIsSigner ==
    IsCreate =>
        /\ result = "Ok" =>
              /\ Stored(accounts, ix.accounts[1]).admin = ix.accounts[2]
              /\ Stored(accounts, ix.accounts[1]).admin \in ix.signers
        /\ (/\ ix.accounts[2] \in ix.signers
            /\ pre[ix.accounts[1]].owner = program_id
            /\ CampaignTryFromSlice(Payload).ok
            /\ CampaignTryFromSlice(Payload).val.admin # ix.accounts[2])
           => (result = "InvalidInstructionData" /\ accounts = pre /\ out = pre)

C15_Witness ==
    /\ IsCreate
    /\ result = "InvalidInstructionData"
    /\ ix.accounts[2] \in ix.signers
    /\ pre[ix.accounts[1]].owner = program_id
    /\ pre[ix.accounts[1]].lamports >= RentOf(pre, ix.accounts[1])
    /\ CampaignTryFromSlice(Payload).ok
    /\ CampaignTryFromSlice(Payload).val.admin # ix.accounts[2]

\* C16: when the writing account (in donate also the staging account) is not
\* program-owned, the instruction fails with the ownership failure kind and
\* no account data or balance is changed, whether or not the account's data
\* would decode.
C16_OwnerFirst ==
    ((IsCreate \/ IsWithdraw \/ IsDonate)
       /\ (\/ pre[ix.accounts[1]].owner # program_id
           \/ (IsDonate /\ pre[ix.accounts[2]].owner # program_id)))
    => (result = "IncorrectProgramId" /\ out = pre /\ accounts = pre)

C16_Witness ==
    /\ IsWithdraw
    /\ pre[ix.accounts[1]].owner # program_id
    /\ ix.accounts[2] \in ix.signers
    /\ ~CampaignTryFromSlice(pre[ix.accounts[1]].data).ok
    /\ result = "IncorrectProgramId"

\* C17: the balance of an account that holds a CampaignRecord goes down only
\* in a withdraw from it signed by the account whose key is the stored admin.
C17_OnlyAdminDebits ==
    \A k \in created :
        accounts[k].lamports < pre[k].lamports =>
            /\ IsWithdraw
            /\ ix.accounts[1] = k
            /\ ix.accounts[2] \in ix.signers
            /\ Stored(pre, k).admin = ix.accounts[2]

\* C18: an instruction the program reports as successful leaves the sum of
\* the balances of the accounts as it was.
C18_Conserves ==
    result = "Ok" => SumLamports(out) = SumLamports(pre)

====
